---- MODULE Spec2Model ----
(***************************************************************************)
(* DocReader: UnifiedFileReader (main.py) and the legacy read_file         *)
(* (one.py).  Paths are sequences of tokens: "/" is os.sep, "." is         *)
(* os.extsep, every other token stands for a run of characters holding     *)
(* neither.  Text is a sequence of characters; "LF", "CR" and "BS" name    *)
(* line feed, carriage return and backslash.  Python values are records    *)
(* of one shape so that any two of them can be compared.                   *)
(***************************************************************************)
EXTENDS Integers, Sequences, FiniteSets, TLC

VARIABLES
    file_path,    \* the path handed to read_file
    file,         \* the file system's entry at file_path
    output_file,  \* the file system's entry at the export destination
    pc,           \* "start", "read" (read_file called), "legacy", "exit"
    invoked,      \* the readers read_file called
    outcome,      \* how the last read_file call ended
    results,      \* how each read_file call so far ended, in order
    data,         \* the caller's record, the dict read_file returned
    written,      \* how the last write_output ended
    exported,     \* the destination's contents after each successful export
    exports,      \* the number of write_output calls made
    legacy,       \* how each call of one.py's read_file ended, in order
    main          \* how the entry point ended

vars == <<file_path, file, output_file, pc, invoked, outcome, results, data,
          written, exported, exports, legacy, main>>

(* ------------------------------ bounds -------------------------------- *)
MaxStrLen == 2
MaxItems == 2
MaxBytes == 3
MaxExports == 2
MaxCalls == 2
MaxPathLen == 4

(* --------------------------- Python values ---------------------------- *)
V(t, s, n, items, keys) ==
    [t |-> t, s |-> s, n |-> n, items |-> items, keys |-> keys]
StrV(s) == V("str", s, 0, <<>>, <<>>)
IntV(n) == V("int", <<>>, n, <<>>, <<>>)
BoolV(b) == V("bool", <<>>, IF b THEN 1 ELSE 0, <<>>, <<>>)
NoneV == V("none", <<>>, 0, <<>>, <<>>)
\* datetime.date: what yaml.safe_load and openpyxl give for a date; json
\* cannot serialize it
DateV == V("date", <<>>, 0, <<>>, <<>>)
ListV(items) == V("list", <<>>, 0, items, <<>>)
\* a dict keeps insertion order: keys[i] maps to items[i], keys are distinct
DictV(keys, items) == V("dict", <<>>, 0, items, keys)
\* xml.etree Element: s is the tag, items[1] its text (a str or None), the
\* rest of items its child elements
ElemV(tag, text, children) == V("elem", tag, 0, <<text>> \o children, <<>>)

isinstance_str(v) == v.t = "str"

(* sequences over S of length at most n *)
SeqsUpTo(S, n) == UNION {[1..k -> S] : k \in 0..n}

Range(f) == {f[i] : i \in DOMAIN f}

Injective(f) == \A i, j \in DOMAIN f : f[i] = f[j] => i = j

(* ------------------------------- paths -------------------------------- *)
sep == "/"
extsep == "."

\* s.rfind(c): the last index of c in s, 0 when absent (Python's -1)
rfind(s, c) ==
    LET I == {i \in 1..Len(s) : s[i] = c}
    IN  IF I = {} THEN 0 ELSE CHOOSE i \in I : \A j \in I : j <= i

\* str.lower() on one token
lower_token(c) ==
    CASE c = "TXT" -> "txt"
      [] c = "Json" -> "json"
      [] c = "Png" -> "png"
      [] OTHER -> c

lower(s) == [i \in DOMAIN s |-> lower_token(s[i])]

\* splitext without its leading-dot and last-component rules: the suffix
\* from the last extsep anywhere in p
splitext_naive(p) ==
    IF rfind(p, extsep) = 0 THEN <<>>
    ELSE SubSeq(p, rfind(p, extsep), Len(p))

\* os.path.splitext(p)[1]: the suffix from the last extsep of the last
\* component, unless only extseps precede it in that component
splitext_ext(p) ==
    LET sepIndex == rfind(p, sep)
        dotIndex == rfind(p, extsep)
    IN  IF dotIndex > sepIndex
           /\ \E k \in (sepIndex + 1)..(dotIndex - 1) : p[k] # extsep
        THEN SubSeq(p, dotIndex, Len(p))
        ELSE <<>>

\* a reader that puts the whole path into file_name
basename_full(p) == p

\* os.path.basename(p): what follows the last sep
basename(p) == SubSeq(p, rfind(p, sep) + 1, Len(p))

(* ----------------------------- MIME_TYPES ----------------------------- *)
MIME_TYPES ==
    (<<".", "txt">> :> "text/plain")
    @@ (<<".", "json">> :> "application/json")
    @@ (<<".", "yaml">> :> "text/x-yaml")
    @@ (<<".", "yml">> :> "text/x-yaml")
    @@ (<<".", "xml">> :> "application/xml")
    @@ (<<".", "docx">> :> "application/vnd.openxmlformats-officedocument.wordprocessingml.document")
    @@ (<<".", "xlsx">> :> "application/vnd.openxmlformats-officedocument.spreadsheetml.sheet")
    @@ (<<".", "pptx">> :> "application/vnd.openxmlformats-officedocument.presentationml.presentation")
    @@ (<<".", "csv">> :> "text/csv")
    @@ (<<".", "pdf">> :> "application/pdf")
    @@ (<<".", "png">> :> "image/png")
    @@ (<<".", "jpeg">> :> "image/jpeg")
    @@ (<<".", "jpg">> :> "image/jpeg")
    @@ (<<".", "py">> :> "text/x-python")
    @@ (<<".", "js">> :> "text/javascript")
    @@ (<<".", "java">> :> "text/x-java-source")
    @@ (<<".", "cpp">> :> "text/x-c++src")
    @@ (<<".", "html">> :> "text/html")

\* MIME_TYPES.get(file_extension, None)
MIME_TYPES_get(file_extension) ==
    IF file_extension \in DOMAIN MIME_TYPES
    THEN MIME_TYPES[file_extension]
    ELSE "None"

(* ----------------------------- exceptions ----------------------------- *)
\* the base class of each exception type the readers and the exporter raise
Base(type) ==
    CASE type = "FileNotFoundError" -> "OSError"
      [] type = "PermissionError" -> "OSError"
      [] type = "OSError" -> "Exception"
      [] type = "UnicodeDecodeError" -> "ValueError"
      [] type = "JSONDecodeError" -> "ValueError"
      [] type = "ValueError" -> "Exception"
      [] type = "TypeError" -> "Exception"
      [] type = "YAMLError" -> "Exception"
      [] type = "ParseError" -> "Exception"
      [] type = "PackageNotFoundError" -> "Exception"
      [] type = "BadZipFile" -> "Exception"
      [] type = "PdfReadError" -> "Exception"
      [] OTHER -> "BaseException"

\* isinstance(e, cls), as an except clause decides it
RECURSIVE IsInstance(_, _)
IsInstance(type, cls) ==
    IF type = cls THEN TRUE
    ELSE IF type = "BaseException" THEN FALSE
    ELSE IsInstance(Base(type), cls)

Exc(type, msg, arg) == [type |-> type, msg |-> msg, arg |-> arg]
NoExc == Exc("", "", <<>>)

Record(file_name, content) == [file_name |-> file_name, content |-> content]
NoRecord == Record(<<>>, NoneV)

\* how a call ends: it returns a value or raises an exception
Return(value) == [kind |-> "return", value |-> value, exc |-> NoExc]
Raise(e) == [kind |-> "raise", value |-> NoRecord, exc |-> e]
NotCalled == [kind |-> "none", value |-> NoRecord, exc |-> NoExc]

(* ------------------------- library conversions ------------------------ *)
\* text-mode read with newline=None: "\r\n" and "\r" come back as "\n"
RECURSIVE translate_newlines(_)
translate_newlines(s) ==
    IF s = <<>> THEN <<>>
    ELSE IF s[1] = "CR" /\ Len(s) >= 2 /\ s[2] = "LF"
         THEN <<"LF">> \o translate_newlines(SubSeq(s, 3, Len(s)))
    ELSE IF s[1] = "CR"
         THEN <<"LF">> \o translate_newlines(Tail(s))
    ELSE <<s[1]>> \o translate_newlines(Tail(s))

\* "\n".join(texts), texts a sequence of str values
RECURSIVE join(_)
join(texts) ==
    IF texts = <<>> THEN <<>>
    ELSE IF Len(texts) = 1 THEN texts[1].s
    ELSE texts[1].s \o <<"LF">> \o join(Tail(texts))

\* the characters str.splitlines() breaks a line at
linebreak(c) == c \in {"LF", "CR", "VT"}

\* s.splitlines(): "\r\n" is one break, the breaks are dropped, no empty
\* last line after a final break
RECURSIVE splitlines_from(_, _, _)
splitlines_from(s, i, j) ==
    IF i > Len(s)
    THEN IF j <= Len(s) THEN <<StrV(SubSeq(s, j, Len(s)))>> ELSE <<>>
    ELSE IF linebreak(s[i])
         THEN LET next == IF s[i] = "CR" /\ i + 1 <= Len(s) /\ s[i + 1] = "LF"
                          THEN i + 2 ELSE i + 1
              IN  <<StrV(SubSeq(s, j, i - 1))>> \o splitlines_from(s, next, next)
    ELSE splitlines_from(s, i + 1, j)

splitlines(s) == ListV(splitlines_from(s, 1, 1))

B64Chars ==
    <<"A", "B", "C", "D", "E", "F", "G", "H", "I", "J", "K", "L", "M",
      "N", "O", "P", "Q", "R", "S", "T", "U", "V", "W", "X", "Y", "Z",
      "a", "b", "c", "d", "e", "f", "g", "h", "i", "j", "k", "l", "m",
      "n", "o", "p", "q", "r", "s", "t", "u", "v", "w", "x", "y", "z",
      "0", "1", "2", "3", "4", "5", "6", "7", "8", "9", "+", "/">>

\* base64.b64encode(b).decode("utf-8"), b a sequence of bytes
RECURSIVE b64encode(_)
b64encode(b) ==
    IF b = <<>> THEN <<>>
    ELSE IF Len(b) = 1
         THEN <<B64Chars[(b[1] \div 4) + 1], B64Chars[(b[1] % 4) * 16 + 1],
                "=", "=">>
    ELSE IF Len(b) = 2
         THEN <<B64Chars[(b[1] \div 4) + 1],
                B64Chars[(b[1] % 4) * 16 + (b[2] \div 16) + 1],
                B64Chars[(b[2] % 16) * 4 + 1], "=">>
    ELSE <<B64Chars[(b[1] \div 4) + 1],
           B64Chars[(b[1] % 4) * 16 + (b[2] \div 16) + 1],
           B64Chars[(b[2] % 16) * 4 + (b[3] \div 64) + 1],
           B64Chars[(b[3] % 64) + 1]>>
         \o b64encode(SubSeq(b, 4, Len(b)))

\* d[k] = v on a dict value: a present key keeps its place
dict_set(d, k, v) ==
    IF \E i \in DOMAIN d.keys : d.keys[i] = k
    THEN LET i == CHOOSE i \in DOMAIN d.keys : d.keys[i] = k
         IN  DictV(d.keys, [d.items EXCEPT ![i] = v])
    ELSE DictV(Append(d.keys, k), Append(d.items, v))

\* {child.tag: child.text for child in children}
RECURSIVE tag_text_dict(_, _)
tag_text_dict(children, acc) ==
    IF children = <<>> THEN acc
    ELSE tag_text_dict(Tail(children),
                       dict_set(acc, StrV(children[1].s), children[1].items[1]))

xml_to_dict(element) ==
    DictV(<<StrV(element.s)>>,
          <<tag_text_dict(Tail(element.items), DictV(<<>>, <<>>))>>)

(* ---------------------------- file system ----------------------------- *)
\* the entry at a path: status "missing", "denied" (no permission),
\* "badenc" (bytes that are not UTF-8), "malformed" (not what the format's
\* parser accepts) or "ok"; doc is what the format's library reads out of
\* an ok file
File(status, doc) == [status |-> status, doc |-> doc]

\* open(file_path, mode) of a file that cannot be opened
open_error(f) ==
    IF f.status = "missing"
    THEN Exc("FileNotFoundError", "No such file or directory", <<>>)
    ELSE Exc("PermissionError", "Permission denied", <<>>)

cannot_open(f) == f.status \in {"missing", "denied"}

(* ------------------------------ readers ------------------------------- *)
read_text(path, f) ==
    IF cannot_open(f) THEN Raise(open_error(f))
    ELSE IF f.status = "badenc"
         THEN Raise(Exc("UnicodeDecodeError", "invalid start byte", <<>>))
    ELSE Return(Record(basename(path), StrV(translate_newlines(f.doc.s))))

read_json(path, f) ==
    IF cannot_open(f) THEN Raise(open_error(f))
    ELSE IF f.status = "badenc"
         THEN Raise(Exc("UnicodeDecodeError", "invalid start byte", <<>>))
    ELSE IF f.status = "malformed"
         THEN Raise(Exc("JSONDecodeError", "Expecting value", <<>>))
    ELSE Return(Record(basename(path), f.doc))

read_yaml_or_xml(path, file_type, f) ==
    IF cannot_open(f) THEN Raise(open_error(f))
    ELSE IF f.status = "badenc"
         THEN Raise(Exc("UnicodeDecodeError", "invalid start byte", <<>>))
    ELSE IF file_type = "application/xml"
         THEN IF f.status = "malformed"
              THEN Raise(Exc("ValueError", "Error parsing XML", <<"ParseError">>))
              ELSE Return(Record(basename(path), xml_to_dict(f.doc)))
    ELSE IF file_type = "text/x-yaml"
         THEN IF f.status = "malformed"
              THEN Raise(Exc("YAMLError", "while parsing", <<>>))
              ELSE Return(Record(basename(path), f.doc))
    ELSE Return(Record(basename(path), f.doc))

\* Document(file_path): python-docx refuses what is no readable zip package
read_docx(path, f) ==
    IF f.status # "ok"
    THEN Raise(Exc("PackageNotFoundError", "Package not found", <<>>))
    ELSE Return(Record(basename(path), StrV(join(f.doc.items))))

read_excel(path, f) ==
    IF cannot_open(f) THEN Raise(open_error(f))
    ELSE IF f.status # "ok"
         THEN Raise(Exc("BadZipFile", "File is not a zip file", <<>>))
    ELSE Return(Record(basename(path), f.doc))

\* a shape is a str value (its text) when it has a text frame, None when not
slide_content(shapes) == SelectSeq(shapes, LAMBDA shape : shape.t = "str")

read_pptx(path, f) ==
    IF f.status # "ok"
    THEN Raise(Exc("PackageNotFoundError", "Package not found", <<>>))
    ELSE Return(Record(basename(path),
                       ListV([i \in DOMAIN f.doc.items |->
                                 ListV(slide_content(f.doc.items[i].items))])))

read_csv(path, f) ==
    IF cannot_open(f) THEN Raise(open_error(f))
    ELSE IF f.status = "badenc"
         THEN Raise(Exc("UnicodeDecodeError", "invalid start byte", <<>>))
    ELSE Return(Record(basename(path), f.doc))

read_pdf(path, f) ==
    IF cannot_open(f) THEN Raise(open_error(f))
    ELSE IF f.status # "ok"
         THEN Raise(Exc("PdfReadError", "EOF marker not found", <<>>))
    ELSE Return(Record(basename(path), StrV(join(f.doc.items))))

read_image(path, f) ==
    IF cannot_open(f) THEN Raise(open_error(f))
    ELSE Return(Record(basename(path),
                       StrV(b64encode([i \in DOMAIN f.doc.items |->
                                          f.doc.items[i].n]))))

TextTypes ==
    {"text/plain", "text/x-python", "text/javascript", "text/x-java-source",
     "text/x-c++src", "text/html"}

\* the reader the conditional chain of read_file selects for a label
reader_of(file_type) ==
    IF file_type \in TextTypes THEN "read_text"
    ELSE IF file_type = "application/json" THEN "read_json"
    ELSE IF file_type \in {"text/x-yaml", "application/xml"} THEN "read_yaml_or_xml"
    ELSE IF file_type = "application/vnd.openxmlformats-officedocument.wordprocessingml.document"
         THEN "read_docx"
    ELSE IF file_type = "application/vnd.openxmlformats-officedocument.spreadsheetml.sheet"
         THEN "read_excel"
    ELSE IF file_type = "application/vnd.openxmlformats-officedocument.presentationml.presentation"
         THEN "read_pptx"
    ELSE IF file_type = "text/csv" THEN "read_csv"
    ELSE IF file_type = "application/pdf" THEN "read_pdf"
    ELSE IF file_type \in {"image/png", "image/jpeg"} THEN "read_image"
    ELSE "none"

call_reader(reader, path, file_type, f) ==
    CASE reader = "read_text" -> read_text(path, f)
      [] reader = "read_json" -> read_json(path, f)
      [] reader = "read_yaml_or_xml" -> read_yaml_or_xml(path, file_type, f)
      [] reader = "read_docx" -> read_docx(path, f)
      [] reader = "read_excel" -> read_excel(path, f)
      [] reader = "read_pptx" -> read_pptx(path, f)
      [] reader = "read_csv" -> read_csv(path, f)
      [] reader = "read_pdf" -> read_pdf(path, f)
      [] reader = "read_image" -> read_image(path, f)

\* read_file with a default reader: an extension MIME_TYPES lacks is read
\* as text
read_file_fallback(path, f) ==
    LET file_type == MIME_TYPES_get(lower(splitext_ext(path)))
        reader == IF file_type = "None" THEN "read_text" ELSE reader_of(file_type)
    IN  [invoked |-> <<reader>>,
         outcome |-> call_reader(reader, path, file_type, f)]

\* UnifiedFileReader.read_file: the readers it called, in order, and how it
\* ended
read_file(path, f) ==
    LET file_extension == lower(splitext_ext(path))
        file_type == MIME_TYPES_get(file_extension)
        reader == reader_of(file_type)
    IN  IF file_type = "None"
        THEN [invoked |-> <<>>,
              outcome |-> Raise(Exc("ValueError", "Unsupported file type",
                                    file_extension))]
        ELSE IF reader = "none"
        THEN [invoked |-> <<>>,
              outcome |-> Raise(Exc("ValueError", "Unsupported file type",
                                    <<file_type>>))]
        ELSE [invoked |-> <<reader>>,
              outcome |-> call_reader(reader, path, file_type, f)]

\* one.py read_file with its except clauses in the other order: the general
\* clause takes FileNotFoundError too
legacy_read_file_generic(path, f) ==
    IF f.status = "missing"
    THEN Return(StrV(<<"An error occurred: ", "No such file or directory">>))
    ELSE IF f.status = "denied"
         THEN Return(StrV(<<"An error occurred: ", "Permission denied">>))
    ELSE IF f.status = "badenc"
         THEN Return(StrV(<<"An error occurred: ", "invalid start byte">>))
    ELSE Return(StrV(translate_newlines(f.doc.s)))

\* one.py read_file: every failure comes back as a message, a normal value
legacy_read_file(path, f) ==
    IF f.status = "missing" THEN Return(StrV(<<"File not found.">>))
    ELSE IF f.status = "denied"
         THEN Return(StrV(<<"An error occurred: ", "Permission denied">>))
    ELSE IF f.status = "badenc"
         THEN Return(StrV(<<"An error occurred: ", "invalid start byte">>))
    ELSE Return(StrV(translate_newlines(f.doc.s)))

(* -------------------------------- JSON -------------------------------- *)
\* the text json.dump writes, as its tokens (indentation left out): one of
\* the punctuation marks, a string (s: its characters as written, escapes
\* included), a number, true, false or null
Tok(k, s, n) == [k |-> k, s |-> s, n |-> n]
Punct(k) == Tok(k, <<>>, 0)

\* the characters json writes for one character of a string
escape_char(c) ==
    CASE c = "LF" -> <<"BS", "n">>
      [] c = "CR" -> <<"BS", "r">>
      [] c = "BS" -> <<"BS", "BS">>
      [] c = "VT" -> <<"BS", "u000b">>
      [] OTHER -> <<c>>

RECURSIVE escape(_)
escape(s) == IF s = <<>> THEN <<>> ELSE escape_char(s[1]) \o escape(Tail(s))

\* the characters a written string stands for
RECURSIVE unescape(_)
unescape(s) ==
    IF s = <<>> THEN <<>>
    ELSE IF s[1] = "BS" /\ Len(s) >= 2
         THEN <<CASE s[2] = "n" -> "LF"
                  [] s[2] = "r" -> "CR"
                  [] s[2] = "u000b" -> "VT"
                  [] OTHER -> s[2]>>
              \o unescape(SubSeq(s, 3, Len(s)))
    ELSE <<s[1]>> \o unescape(Tail(s))

Digits == <<"0", "1", "2", "3", "4", "5", "6", "7", "8", "9">>

\* str(n) of an int
RECURSIVE int_str(_)
int_str(n) ==
    IF n < 0 THEN <<"-">> \o int_str(0 - n)
    ELSE IF n < 10 THEN <<Digits[n + 1]>>
    ELSE int_str(n \div 10) \o <<Digits[(n % 10) + 1]>>

\* the string json writes for a dict key; only these key types are accepted
key_ok(k) == k.t \in {"str", "int", "bool", "none"}

key_str(k) ==
    CASE k.t = "str" -> k.s
      [] k.t = "int" -> int_str(k.n)
      [] k.t = "bool" -> IF k.n = 1 THEN <<"true">> ELSE <<"false">>
      [] OTHER -> <<"null">>

Encoded(toks, ok) == [toks |-> toks, ok |-> ok]

\* json's iterencode: the tokens written, in order, up to the first value or
\* key that cannot be serialized (ok = FALSE: TypeError is raised there)
RECURSIVE encode(_)
RECURSIVE encode_list(_, _, _)
RECURSIVE encode_dict(_, _, _)
encode(v) ==
    CASE v.t = "str" -> Encoded(<<Tok("str", escape(v.s), 0)>>, TRUE)
      [] v.t = "int" -> Encoded(<<Tok("num", <<>>, v.n)>>, TRUE)
      [] v.t = "bool" -> Encoded(<<Punct(IF v.n = 1 THEN "true" ELSE "false")>>, TRUE)
      [] v.t = "none" -> Encoded(<<Punct("null")>>, TRUE)
      [] v.t = "list" -> encode_list(v.items, 1, <<Punct("[")>>)
      [] v.t = "dict" -> encode_dict(v, 1, <<Punct("{")>>)
      [] OTHER -> Encoded(<<>>, FALSE)

encode_list(items, i, acc) ==
    IF i > Len(items) THEN Encoded(Append(acc, Punct("]")), TRUE)
    ELSE LET buf == IF i = 1 THEN acc ELSE Append(acc, Punct(","))
             e == encode(items[i])
         IN  IF e.ok THEN encode_list(items, i + 1, buf \o e.toks)
             ELSE Encoded(buf \o e.toks, FALSE)

encode_dict(d, i, acc) ==
    IF i > Len(d.keys) THEN Encoded(Append(acc, Punct("}")), TRUE)
    ELSE IF ~key_ok(d.keys[i]) THEN Encoded(acc, FALSE)
    ELSE LET buf == (IF i = 1 THEN acc ELSE Append(acc, Punct(",")))
                    \o <<Tok("str", escape(key_str(d.keys[i])), 0), Punct(":")>>
             e == encode(d.items[i])
         IN  IF e.ok THEN encode_dict(d, i + 1, buf \o e.toks)
             ELSE Encoded(buf \o e.toks, FALSE)

Parsed(ok, val, next) == [ok |-> ok, val |-> val, next |-> next]
ParseFail == Parsed(FALSE, NoneV, 0)

\* json's decoder on a token sequence, from position i: the value and the
\* position after it.  An object becomes a dict: a repeated key keeps its
\* first place and its last value
RECURSIVE parse_value(_, _)
RECURSIVE parse_list(_, _, _)
RECURSIVE parse_dict(_, _, _)
parse_value(toks, i) ==
    IF i > Len(toks) THEN ParseFail
    ELSE CASE toks[i].k = "str" -> Parsed(TRUE, StrV(unescape(toks[i].s)), i + 1)
           [] toks[i].k = "num" -> Parsed(TRUE, IntV(toks[i].n), i + 1)
           [] toks[i].k = "true" -> Parsed(TRUE, BoolV(TRUE), i + 1)
           [] toks[i].k = "false" -> Parsed(TRUE, BoolV(FALSE), i + 1)
           [] toks[i].k = "null" -> Parsed(TRUE, NoneV, i + 1)
           [] toks[i].k = "[" ->
                IF i + 1 <= Len(toks) /\ toks[i + 1].k = "]"
                THEN Parsed(TRUE, ListV(<<>>), i + 2)
                ELSE parse_list(toks, i + 1, <<>>)
           [] toks[i].k = "{" ->
                IF i + 1 <= Len(toks) /\ toks[i + 1].k = "}"
                THEN Parsed(TRUE, DictV(<<>>, <<>>), i + 2)
                ELSE parse_dict(toks, i + 1, DictV(<<>>, <<>>))
           [] OTHER -> ParseFail

parse_list(toks, i, acc) ==
    LET r == parse_value(toks, i)
    IN  IF ~r.ok \/ r.next > Len(toks) THEN ParseFail
        ELSE IF toks[r.next].k = ","
             THEN parse_list(toks, r.next + 1, Append(acc, r.val))
        ELSE IF toks[r.next].k = "]"
             THEN Parsed(TRUE, ListV(Append(acc, r.val)), r.next + 1)
        ELSE ParseFail

parse_dict(toks, i, acc) ==
    IF i + 1 > Len(toks) \/ toks[i].k # "str" \/ toks[i + 1].k # ":"
    THEN ParseFail
    ELSE LET r == parse_value(toks, i + 2)
             d == dict_set(acc, StrV(unescape(toks[i].s)), r.val)
         IN  IF ~r.ok \/ r.next > Len(toks) THEN ParseFail
             ELSE IF toks[r.next].k = ","
                  THEN parse_dict(toks, r.next + 1, d)
             ELSE IF toks[r.next].k = "}"
                  THEN Parsed(TRUE, d, r.next + 1)
             ELSE ParseFail

\* json.load of a whole text: JSONDecodeError unless it is one value
json_load(toks) ==
    LET r == parse_value(toks, 1)
    IN  IF r.ok /\ r.next = Len(toks) + 1 THEN r ELSE ParseFail

(* ------------------------------ exporter ------------------------------ *)
\* the destination's entry: status "absent", "present" or "unwritable" (a
\* directory, or no permission to write); toks is what it holds
Dest(status, toks) == [status |-> status, toks |-> toks]

\* a record as the dict json.dump is given
record_dict(r) ==
    DictV(<<StrV(<<"file_name">>), StrV(<<"content">>)>>,
          <<StrV(r.file_name), r.content>>)

\* an exporter that serializes the record as it is, text not split
formatted_raw(d) == d

\* data["content"] after the isinstance check and the assignment under it
formatted(d) ==
    IF isinstance_str(d.content)
    THEN Record(d.file_name, splitlines(d.content.s))
    ELSE d

\* write_output without its try/except: the failures of open and json.dump
\* reach the caller as they are
write_output_unwrapped(d, dest) ==
    LET d2 == formatted(d)
        e == encode(record_dict(d2))
    IN  IF dest.status = "unwritable"
        THEN [data |-> d2, dest |-> dest,
              outcome |-> Raise(Exc("PermissionError", "Permission denied", <<>>))]
        ELSE IF ~e.ok
        THEN [data |-> d2, dest |-> Dest("present", e.toks),
              outcome |-> Raise(Exc("TypeError", "not JSON serializable", <<>>))]
        ELSE [data |-> d2, dest |-> Dest("present", e.toks),
              outcome |-> Return(NoRecord)]

\* UnifiedFileReader.write_output: the caller's dict and the destination
\* afterwards, and how the call ended.  open(..., "w") empties the file
\* before json.dump writes its pieces into it
write_output(d, dest) ==
    LET d2 == formatted(d)
        e == encode(record_dict(d2))
    IN  IF dest.status = "unwritable"
        THEN [data |-> d2, dest |-> dest,
              outcome |-> Raise(Exc("ValueError", "Error writing output file",
                                    <<"PermissionError">>))]
        ELSE IF ~e.ok
        THEN [data |-> d2, dest |-> Dest("present", e.toks),
              outcome |-> Raise(Exc("ValueError", "Error writing output file",
                                    <<"TypeError">>))]
        ELSE [data |-> d2, dest |-> Dest("present", e.toks),
              outcome |-> Return(NoRecord)]

(* --------------------------- the files read --------------------------- *)
TextChars == {"a", "LF", "CR", "BS"}
TextDocs ==
    {StrV(t) : t \in SeqsUpTo(TextChars, MaxStrLen)} \cup {StrV(<<"BS", "n">>)}

JsonScalars ==
    {NoneV, BoolV(TRUE), IntV(1), StrV(<<"a">>), StrV(<<"LF">>), StrV(<<"BS", "n">>)}
StrKeys == {StrV(<<"a">>), StrV(<<"1">>)}
DictsOver(keys, values) ==
    {DictV(k, v) : <<k, v>> \in
        UNION {{kv \in [1..n -> keys] \X [1..n -> values] : Injective(kv[1])}
               : n \in 0..MaxItems}}
JsonDocs ==
    JsonScalars
    \cup {ListV(l) : l \in SeqsUpTo(JsonScalars, MaxItems)}
    \cup DictsOver(StrKeys, JsonScalars)
    \cup {ListV(<<ListV(<<IntV(1)>>), DictV(<<StrV(<<"k">>)>>, <<IntV(1)>>)>>),
          DictV(<<StrV(<<"k">>)>>, <<DictV(<<StrV(<<"a">>)>>, <<ListV(<<NoneV>>)>>)>>)}

\* yaml.safe_load also gives dates and mappings with keys that are no strings
YamlScalars == {NoneV, IntV(1), StrV(<<"a">>), DateV}
YamlKeys == StrKeys \cup {IntV(1)}
YamlDocs ==
    YamlScalars
    \cup {ListV(l) : l \in SeqsUpTo(YamlScalars, MaxItems)}
    \cup DictsOver(YamlKeys, {IntV(1), StrV(<<"a">>), DateV})
    \cup {DictV(<<StrV(<<"k">>)>>, <<DictV(<<IntV(1)>>, <<StrV(<<"a">>)>>)>>)}

XmlChildren ==
    {ElemV(<<tag>>, text, <<>>) : tag \in {"x", "y"}, text \in {NoneV, StrV(<<"a">>)}}
    \cup {ElemV(<<"x">>, StrV(<<"b">>), <<ElemV(<<"z">>, StrV(<<"a">>), <<>>)>>)}
XmlDocs == {ElemV(<<"r">>, NoneV, c) : c \in SeqsUpTo(XmlChildren, MaxItems)}

Paragraphs ==
    {StrV(<<>>), StrV(<<"a">>), StrV(<<"LF">>), StrV(<<"VT">>), StrV(<<"a", "CR", "LF">>)}
DocxDocs == {ListV(l) : l \in SeqsUpTo(Paragraphs, MaxItems)}
PdfDocs == DocxDocs

\* a sheet is a grid: every row has the same number of cells
ExcelRows ==
    {ListV(<<IntV(1), StrV(<<"a">>)>>), ListV(<<NoneV, IntV(1)>>),
     ListV(<<IntV(1), DateV>>)}
ExcelDocs == {ListV(l) : l \in SeqsUpTo(ExcelRows, MaxItems)}

\* rows of fields, as csv.reader gives them
CsvRows ==
    {ListV(<<>>), ListV(<<StrV(<<"a">>)>>), ListV(<<StrV(<<"a">>), StrV(<<>>)>>)}
CsvDocs == {ListV(l) : l \in SeqsUpTo(CsvRows, MaxItems)}
\* a slide's shapes: a shape is its text, or None when it has no text frame
PptxSlides ==
    {ListV(<<>>), ListV(<<StrV(<<"a">>)>>), ListV(<<NoneV>>),
     ListV(<<StrV(<<"a">>), NoneV, StrV(<<"b">>)>>)}
PptxDocs == {ListV(l) : l \in SeqsUpTo(PptxSlides, MaxItems)}

Bytes == {77, 255}
ImageDocs == {ListV([i \in DOMAIN b |-> IntV(b[i])]) : b \in SeqsUpTo(Bytes, MaxBytes)}

Unopenable == {File("missing", NoneV), File("denied", NoneV)}
Undecodable == {File("badenc", NoneV)}
Malformed == {File("malformed", NoneV)}
Ok(docs) == {File("ok", d) : d \in docs}

\* the entries a path of a given extension is read from: the states the
\* reader bound to it tells apart
FilesFor(path) ==
    LET file_type == MIME_TYPES_get(lower(splitext_ext(path)))
        reader == reader_of(file_type)
    IN  CASE reader = "read_text" -> Unopenable \cup Undecodable \cup Ok(TextDocs)
          [] reader = "read_json" ->
                Unopenable \cup Undecodable \cup Malformed \cup Ok(JsonDocs)
          [] reader = "read_yaml_or_xml" ->
                Unopenable \cup Undecodable \cup Malformed
                \cup Ok(IF file_type = "application/xml" THEN XmlDocs ELSE YamlDocs)
          [] reader = "read_docx" -> Unopenable \cup Malformed \cup Ok(DocxDocs)
          [] reader = "read_excel" -> Unopenable \cup Malformed \cup Ok(ExcelDocs)
          [] reader = "read_pptx" -> Unopenable \cup Malformed \cup Ok(PptxDocs)
          [] reader = "read_csv" -> Unopenable \cup Undecodable \cup Ok(CsvDocs)
          [] reader = "read_pdf" -> Unopenable \cup Malformed \cup Ok(PdfDocs)
          [] reader = "read_image" -> Unopenable \cup Ok(ImageDocs)
          [] OTHER -> Unopenable \cup Ok({StrV(<<"a">>)})

ExtTokens ==
    {"txt", "json", "yaml", "yml", "xml", "docx", "xlsx", "pptx", "csv", "pdf",
     "png", "jpeg", "jpg", "py", "js", "java", "cpp", "html",
     "TXT", "Json", "Png", "zip"}
\* "ch3.pdf" is the entry point's file_name
Stems == {<<"ch3">>, <<"d", "/", "ch3">>}
Paths == Stems \cup {stem \o <<".", e>> : stem \in Stems, e \in ExtTokens}

\* what the destination holds before the first export
OldToks == encode(record_dict(Record(<<"old", ".", "txt">>, ListV(<<StrV(<<"a">>)>>)))).toks
Dests == {Dest("absent", <<>>), Dest("present", OldToks), Dest("unwritable", OldToks)}

(* ------------------------------ behaviour ----------------------------- *)
NotRun == [status |-> "none", printed |-> <<>>, exc |-> NoExc]

InitRest ==
    /\ pc = "start"
    /\ invoked = <<>>
    /\ outcome = NotCalled
    /\ results = <<>>
    /\ data = NoRecord
    /\ written = NotCalled
    /\ exported = <<>>
    /\ exports = 0
    /\ legacy = <<>>
    /\ main = NotRun

Init ==
    /\ file_path \in Paths
    /\ file \in FilesFor(file_path)
    /\ output_file \in Dests
    /\ InitRest

\* a caller calls reader.read_file(file_path) and keeps what it returns
ReadFile ==
    /\ pc \in {"start", "read"}
    /\ Len(results) < MaxCalls
    /\ LET r == read_file(file_path, file)
       IN  /\ invoked' = r.invoked
           /\ outcome' = r.outcome
           /\ results' = Append(results, r.outcome)
           /\ data' = IF r.outcome.kind = "return" THEN r.outcome.value ELSE data
    /\ pc' = "read"
    /\ UNCHANGED <<file_path, file, output_file, written, exported, exports,
                   legacy, main>>

\* the caller hands the record it holds to write_output
WriteOutput ==
    /\ pc = "read"
    /\ outcome.kind = "return"
    /\ exports < MaxExports
    /\ LET w == write_output(data, output_file)
       IN  /\ data' = w.data
           /\ output_file' = w.dest
           /\ written' = w.outcome
           /\ exported' = IF w.outcome.kind = "return"
                          THEN Append(exported, w.dest.toks)
                          ELSE exported
    /\ exports' = exports + 1
    /\ UNCHANGED <<file_path, file, pc, invoked, outcome, results, legacy, main>>

\* one.py: read_file(file_path); the model holds the text of text files only
LegacyReadFile ==
    /\ pc \in {"start", "legacy"}
    /\ Len(legacy) < MaxCalls
    /\ file.status # "ok" \/ file.doc.t = "str"
    /\ legacy' = Append(legacy, legacy_read_file(file_path, file))
    /\ pc' = "legacy"
    /\ UNCHANGED <<file_path, file, output_file, invoked, outcome, results,
                   data, written, exported, exports, main>>

\* an entry point whose except clause takes every Exception
caught_everything(e) == TRUE

\* "except ValueError as e" of the entry point
caught_by_except(e) == IsInstance(e.type, "ValueError")

\* the entry point: read_file, then write_output to the default destination,
\* both under one "except ValueError" that prints the message.  file_name
\* is the line a user of the example edits: the entry point is run for every
\* path of Paths, the source's "ch3.pdf" among them
Main ==
    /\ pc = "start"
    /\ LET r == read_file(file_path, file)
           w == write_output(r.outcome.value, output_file)
           raised == IF r.outcome.kind = "raise" THEN r.outcome.exc
                     ELSE IF w.outcome.kind = "raise" THEN w.outcome.exc
                     ELSE NoExc
       IN  /\ invoked' = r.invoked
           /\ outcome' = r.outcome
           /\ results' = <<r.outcome>>
           /\ data' = IF r.outcome.kind = "return" THEN w.data ELSE NoRecord
           /\ output_file' = IF r.outcome.kind = "return" THEN w.dest ELSE output_file
           /\ written' = IF r.outcome.kind = "return" THEN w.outcome ELSE NotCalled
           /\ exported' = IF r.outcome.kind = "return" /\ w.outcome.kind = "return"
                          THEN <<w.dest.toks>> ELSE <<>>
           /\ exports' = IF r.outcome.kind = "return" THEN 1 ELSE 0
           /\ main' = IF raised = NoExc
                      THEN [status |-> "ok", printed |-> <<"Data written to ">>,
                            exc |-> NoExc]
                      ELSE IF caught_by_except(raised)
                      THEN [status |-> "caught",
                            printed |-> <<"Error: ", raised.msg>>, exc |-> raised]
                      ELSE [status |-> "uncaught", printed |-> <<>>, exc |-> raised]
    /\ pc' = "exit"
    /\ UNCHANGED <<file_path, file, legacy>>

Next == ReadFile \/ WriteOutput \/ LegacyReadFile \/ Main

Spec == Init /\ [][Next]_vars

(* every path of up to MaxPathLen tokens, for the extension rule *)
PathTokens == {"a", "txt", "TXT", "zip", ".", "/"}

InitExt ==
    /\ file_path \in SeqsUpTo(PathTokens, MaxPathLen)
    /\ file \in {File("missing", NoneV), File("ok", StrV(<<"a">>))}
    /\ output_file = Dest("absent", <<>>)
    /\ InitRest

NextExt == ReadFile

SpecExt == InitExt /\ [][NextExt]_vars

(* ------------------------------- claims ------------------------------- *)
ReadCalled == outcome.kind # "none"

FileExtension == lower(splitext_ext(file_path))

Registered == FileExtension \in DOMAIN MIME_TYPES

UnsupportedType(o) ==
    /\ o.kind = "raise"
    /\ o.exc.type = "ValueError"
    /\ o.exc.msg = "Unsupported file type"

\* C1 as stated: every read_file call either invokes exactly one reader and
\* returns its record, or fails with unsupported-type having invoked no
\* reader.
C1_Original ==
    ReadCalled =>
        \/ Len(invoked) = 1 /\ outcome.kind = "return"
        \/ invoked = <<>> /\ UnsupportedType(outcome)

\* C1 amended: every read_file call either invokes exactly one reader and
\* ends as that reader ends (with its record or with its failure), or fails
\* with unsupported-type having invoked no reader and returned no record; an
\* extension absent from MIME_TYPES always ends the second way.
C1_Dispatch ==
    ReadCalled =>
        /\ \/ /\ Len(invoked) = 1
              /\ outcome = call_reader(invoked[1], file_path,
                                       MIME_TYPES_get(FileExtension), file)
           \/ /\ invoked = <<>>
              /\ UnsupportedType(outcome)
              /\ outcome.value = NoRecord
        /\ ~Registered => invoked = <<>> /\ UnsupportedType(outcome)
        /\ Registered => Len(invoked) = 1

C1_Witness ==
    /\ pc = "read"
    /\ FileExtension = <<".", "zip">>
    /\ invoked = <<>>
    /\ UnsupportedType(outcome)

\* the reader the documentation binds to each registered extension
DocumentedReader(ext) ==
    CASE ext \in {"txt", "py", "js", "java", "cpp", "html"} -> "read_text"
      [] ext = "json" -> "read_json"
      [] ext \in {"yaml", "yml", "xml"} -> "read_yaml_or_xml"
      [] ext = "docx" -> "read_docx"
      [] ext = "xlsx" -> "read_excel"
      [] ext = "pptx" -> "read_pptx"
      [] ext = "csv" -> "read_csv"
      [] ext = "pdf" -> "read_pdf"
      [] ext \in {"png", "jpeg", "jpg"} -> "read_image"

ScalarTypes == {"str", "int", "bool", "none", "date"}

\* v is a sequence of sequences of values of the given types
IsGrid(v, types) ==
    /\ v.t = "list"
    /\ \A i \in DOMAIN v.items :
          /\ v.items[i].t = "list"
          /\ \A j \in DOMAIN v.items[i].items : v.items[i].items[j].t \in types

RECURSIVE TotalLen(_)
TotalLen(texts) ==
    IF texts = <<>> THEN 0 ELSE Len(texts[1].s) + TotalLen(Tail(texts))

\* text is the texts joined with one newline between neighbours
IsJoined(text, texts) ==
    /\ text.t = "str"
    /\ Len(text.s) = TotalLen(texts) + (IF texts = <<>> THEN 0 ELSE Len(texts) - 1)
    /\ \A i \in DOMAIN texts :
          LET at == TotalLen(SubSeq(texts, 1, i - 1)) + i - 1
          IN  /\ SubSeq(text.s, at + 1, at + Len(texts[i].s)) = texts[i].s
              /\ i < Len(texts) => text.s[at + Len(texts[i].s) + 1] = "LF"

\* the content shape documented for each reader, for the document doc
DocumentedShape(reader, ext, content, doc) ==
    CASE reader = "read_text" -> content.t = "str"
      [] reader = "read_json" -> content = doc
      [] reader = "read_yaml_or_xml" ->
            IF ext = "xml"
            THEN /\ content.t = "dict"
                 /\ content.keys = <<StrV(doc.s)>>
                 /\ content.items[1].t = "dict"
                 /\ \A i \in DOMAIN content.items[1].keys :
                       /\ content.items[1].keys[i].t = "str"
                       /\ content.items[1].items[i].t \in {"str", "none"}
                       /\ \E c \in 2..Len(doc.items) :
                             /\ doc.items[c].s = content.items[1].keys[i].s
                             /\ doc.items[c].items[1] = content.items[1].items[i]
                 /\ \A c \in 2..Len(doc.items) :
                       \E i \in DOMAIN content.items[1].keys :
                           content.items[1].keys[i].s = doc.items[c].s
            ELSE content = doc
      [] reader = "read_docx" -> IsJoined(content, doc.items)
      [] reader = "read_excel" -> IsGrid(content, ScalarTypes)
      [] reader = "read_pptx" ->
            /\ IsGrid(content, {"str"})
            /\ Len(content.items) = Len(doc.items)
            /\ \A i \in DOMAIN doc.items :
                  Len(content.items[i].items) =
                      Cardinality({j \in DOMAIN doc.items[i].items :
                                      doc.items[i].items[j].t = "str"})
      [] reader = "read_csv" -> IsGrid(content, {"str"})
      [] reader = "read_pdf" -> IsJoined(content, doc.items)
      [] reader = "read_image" ->
            /\ content.t = "str"
            /\ Len(content.s) = 4 * ((Len(doc.items) + 2) \div 3)
            /\ \A i \in DOMAIN content.s :
                  content.s[i] \in Range(B64Chars) \cup {"="}

\* name is the last component of path: it holds no separator and path is
\* name itself or ends with a separator followed by name
IsBaseNameOf(name, path) ==
    /\ \A i \in DOMAIN name : name[i] # sep
    /\ Len(name) <= Len(path)
    /\ SubSeq(path, Len(path) - Len(name) + 1, Len(path)) = name
    /\ Len(name) < Len(path) => path[Len(path) - Len(name)] = sep

\* C2: a well-formed file of a registered extension is read by the one
\* reader documented for its category, never ends in the final "Unsupported
\* file type" branch, and gives a record whose file_name is the base name of
\* the path and whose content has the documented shape.
C2_Routing ==
    (ReadCalled /\ Registered /\ file.status = "ok") =>
        /\ invoked = <<DocumentedReader(FileExtension[2])>>
        /\ ~UnsupportedType(outcome)
        /\ outcome.kind = "return"
        /\ IsBaseNameOf(outcome.value.file_name, file_path)
        /\ DocumentedShape(invoked[1], FileExtension[2], outcome.value.content,
                           file.doc)

C2_Witness ==
    /\ pc = "read"
    /\ file_path = <<"d", "/", "ch3", ".", "xml">>
    /\ file.status = "ok"
    /\ Len(file.doc.items) = 3
    /\ outcome.kind = "return"
    /\ outcome.value.file_name = <<"ch3", ".", "xml">>

\* what re-reading an exported file as JSON gives, against the record
\* that was exported with content c
Reread(toks, file_name, c) ==
    LET r == json_load(toks)
    IN  /\ r.ok
        /\ r.val.t = "dict"
        /\ r.val.keys = <<StrV(<<"file_name">>), StrV(<<"content">>)>>
        /\ r.val.items[1] = StrV(file_name)
        /\ r.val.items[2] = c

\* the record read_file returned, as it was before any export
Original == outcome.value

\* C3 as stated: after every successful export, re-reading the destination
\* as JSON gives the record's file_name and its content, split into lines
\* when it was a string and unchanged when it was not; every further export
\* of the record leaves the same file contents.
C3_Original ==
    \A i \in DOMAIN exported :
        /\ Reread(exported[i], Original.file_name,
                  IF Original.content.t = "str"
                  THEN splitlines(Original.content.s)
                  ELSE Original.content)
        /\ exported[i] = exported[1]

RECURSIVE AllStrKeys(_)
AllStrKeys(v) ==
    /\ \A i \in DOMAIN v.keys : v.keys[i].t = "str"
    /\ \A i \in DOMAIN v.items : AllStrKeys(v.items[i])

\* C3 amended: after every successful export, re-reading the destination as
\* JSON gives the record's file_name and its content, split into lines when
\* it was a string, and unchanged when it was not a string and every mapping
\* key in it is a string; every further export of the record leaves the same
\* file contents.
C3_RoundTrip ==
    \A i \in DOMAIN exported :
        /\ Original.content.t = "str" =>
               Reread(exported[i], Original.file_name,
                      splitlines(Original.content.s))
        /\ (Original.content.t # "str" /\ AllStrKeys(Original.content)) =>
               Reread(exported[i], Original.file_name, Original.content)
        /\ exported[i] = exported[1]

C3_Witness ==
    /\ Len(exported) = 2
    /\ Original.content.t = "str"
    /\ \E i \in DOMAIN Original.content.s : Original.content.s[i] = "LF"
    /\ Len(json_load(exported[2]).val.items[2].items) = 2

\* C4: write_output leaves the caller's record as it was, whether the call
\* succeeds or fails.
C4_CallerRecordUnchanged ==
    [][(pc = "read" /\ exports' = exports + 1) => data' = data]_vars

C6_ParseFailure ==
    (ReadCalled /\ Registered /\ file.status = "malformed"
     /\ FileExtension[2] \in {"json", "yaml", "yml", "xml"}) =>
        /\ outcome.kind = "raise"
        /\ outcome.value = NoRecord
        /\ IsInstance(outcome.exc.type, "ValueError")
        /\ FileExtension[2] = "xml" => outcome.exc.msg = "Error parsing XML"

\* the failure category of a failed read_file call
ReadCategory ==
    IF invoked = <<>> THEN "unsupported-type"
    ELSE IF file.status = "missing" THEN "not-found"
    ELSE IF file.status = "malformed" THEN "parse-failure"
    ELSE "io-failure"

CaughtCase ==
    \/ /\ outcome.kind = "raise"
       /\ \/ invoked = <<>>
          \/ file.status = "malformed" /\ FileExtension[2] \in {"xml", "json"}
          \/ file.status = "badenc"
    \/ written.kind = "raise"

LastDotSuffix(path) ==
    IF rfind(path, extsep) = 0 THEN <<>>
    ELSE lower(SubSeq(path, rfind(path, extsep), Len(path)))

\* read_file dispatched on extension e
DispatchedOn(e) ==
    IF e \in DOMAIN MIME_TYPES
    THEN invoked = <<reader_of(MIME_TYPES[e])>>
    ELSE invoked = <<>> /\ UnsupportedType(outcome) /\ outcome.exc.arg = e

\* C9 as stated: read_file dispatches on the lower-cased substring of the
\* path from its last ".": a file name that is only a registered extension
\* goes to that extension's reader, a path without "." fails with
\* unsupported-type naming the empty extension.
C9_Original == ReadCalled => DispatchedOn(LastDotSuffix(file_path))

\* the lower-cased suffix of the last path component from its last ".",
\* when a character other than "." precedes that "." in the component
ComponentSuffix(path) ==
    LET name == SubSeq(path, rfind(path, sep) + 1, Len(path))
        dot == rfind(name, extsep)
    IN  IF dot > 0 /\ \E k \in 1..(dot - 1) : name[k] # extsep
        THEN lower(SubSeq(name, dot, Len(name)))
        ELSE <<>>

\* C9 amended: read_file dispatches on the lower-cased suffix of the last
\* path component that starts at the component's last ".", and on the empty
\* extension when the component has no "." or only "." before it: paths that
\* differ only in letter case go to the same reader, a file name that is
\* only an extension (".txt") and a path without "." both fail with
\* unsupported-type naming the empty extension.
C9_Extension ==
    ReadCalled =>
        /\ DispatchedOn(ComponentSuffix(file_path))
        /\ invoked = read_file(lower(file_path), file).invoked
        /\ (\A i \in DOMAIN file_path : file_path[i] # extsep) =>
               UnsupportedType(outcome) /\ outcome.exc.arg = <<>>

C9_Witness ==
    /\ ReadCalled
    /\ file_path = <<".", "txt">>
    /\ UnsupportedType(outcome)
    /\ outcome.exc.arg = <<>>

\* C10: a write_output call that fails leaves the destination as it was
\* before the call, and one that succeeds leaves in it exactly the JSON of
\* the record's file_name and content.
C10_Atomic ==
    [][(pc = "read" /\ exports' = exports + 1) =>
          IF written'.kind = "raise"
          THEN output_file' = output_file
          ELSE /\ output_file'.status = "present"
               /\ json_load(output_file'.toks).ok
               /\ output_file'.toks = encode(record_dict(data')).toks]_vars

====
